---- MODULE Spec2Model ----
(***************************************************************************)
(* Priority classification and load-balancing engine of the SSC weekly     *)
(* planner (src/ssc_weekly_planner.py): get_gk_priorities,                 *)
(* get_maths_priorities, get_reasoning_priorities, generate_daily_plan and *)
(* anti_zero_day_rule, applied to bounded schedule data.                   *)
(*                                                                         *)
(* Representation.                                                         *)
(*  - A datetime is [ord, hour]: the proleptic Gregorian ordinal of its    *)
(*    date (datetime.toordinal) and its hour of day.  Python orders        *)
(*    datetimes by date, then by time of day.                              *)
(*  - An ISO date string is the tuple of its numeric fields: <<y, m, d>>   *)
(*    for "YYYY-MM-DD", <<y, m, d, h>> for "YYYY-MM-DDTHH:00"; any other   *)
(*    tuple is a string that datetime.fromisoformat rejects.               *)
(*  - A JSON dict is a record with a field "keys" (the keys it has) and    *)
(*    one field per possible key; a field whose key is absent is ignored.  *)
(*    A JSON value that is not of the expected shape has isdict/islist     *)
(*    FALSE.  A dict of topics is a sequence (Python dicts iterate in      *)
(*    insertion order).                                                    *)
(*  - success_rate and accuracy are fractions in hundredths (0.7 is 70).   *)
(*  - A Python string built from pieces is the sequence of its pieces; the *)
(*    empty string is <<>>.                                                *)
(***************************************************************************)
EXTENDS Integers, Sequences, FiniteSets, TLC

VARIABLES gk_data, maths_data, today, called, gk_priorities, maths_priorities, reasoning_priorities, plan, plan_raised, zero_day_guidance, exam_proximity, exam_raised, plan_7day, call_log

vars == <<gk_data, maths_data, today, called, gk_priorities, maths_priorities, reasoning_priorities, plan, plan_raised, zero_day_guidance, exam_proximity, exam_raised, plan_7day, call_log>>

(***************************************************************************)
(* Bounds of the model and constants of the program.                       *)
(***************************************************************************)
MaxItems == 3

WeakThreshold == 70

DefaultRate == 100

HeavyCap == 1

MediumCap == 2

MaxForecastGk == 4

MaxForecastPractice == 1

(***************************************************************************)
(* datetime: fromisoformat, isoformat, comparison, date().                 *)
(***************************************************************************)
IsLeap(y) == (y % 4 = 0) /\ ((y % 100 # 0) \/ (y % 400 = 0))

DaysInMonth(y, m) ==
    IF m = 2 THEN (IF IsLeap(y) THEN 29 ELSE 28)
    ELSE IF m \in {4, 6, 9, 11} THEN 30 ELSE 31

RECURSIVE DaysBeforeMonth(_, _)
DaysBeforeMonth(y, m) ==
    IF m <= 1 THEN 0 ELSE DaysBeforeMonth(y, m - 1) + DaysInMonth(y, m - 1)

DaysBeforeYear(y) ==
    (y - 1) * 365 + ((y - 1) \div 4) - ((y - 1) \div 100) + ((y - 1) \div 400)

ToOrdinal(y, m, d) == DaysBeforeYear(y) + DaysBeforeMonth(y, m) + d

\* datetime.fromisoformat accepts the string (raises no ValueError)
IsIsoFormat(s) ==
    /\ Len(s) \in {3, 4}
    /\ s[1] \in 1..9999
    /\ s[2] \in 1..12
    /\ s[3] \in 1..DaysInMonth(s[1], s[2])
    /\ (Len(s) = 4 => s[4] \in 0..23)

fromisoformat(s) ==
    [ord |-> ToOrdinal(s[1], s[2], s[3]), hour |-> IF Len(s) = 4 THEN s[4] ELSE 0]

\* datetime.isoformat: the inverse conversion, from the ordinal back to fields
isoformat(dt) ==
    LET y == CHOOSE yy \in (dt.ord \div 366)..((dt.ord \div 365) + 1) :
                 DaysBeforeYear(yy) < dt.ord /\ dt.ord <= DaysBeforeYear(yy + 1)
        m == CHOOSE mm \in 1..12 :
                 /\ DaysBeforeMonth(y, mm) < dt.ord - DaysBeforeYear(y)
                 /\ dt.ord - DaysBeforeYear(y) <= DaysBeforeMonth(y, mm) + DaysInMonth(y, mm)
        d == dt.ord - DaysBeforeYear(y) - DaysBeforeMonth(y, m)
    IN  <<y, m, d, dt.hour>>

\* datetime.__lt__ of two naive datetimes
DateTimeLt(a, b) == a.ord < b.ord \/ (a.ord = b.ord /\ a.hour < b.hour)

\* datetime.date()
date(dt) == dt.ord

(***************************************************************************)
(* get_gk_priorities                                                       *)
(***************************************************************************)
EmptyPriorities == [overdue |-> <<>>, due_today |-> <<>>, weak_areas |-> <<>>, upcoming |-> <<>>]

RevisionItem(topic, due_date, success_rate) ==
    [topic |-> topic, due_date |-> due_date, success_rate |-> success_rate]

\* mutant: the due-today test written as a second "if", not an "elif"
ClassifyRevision_IfNotElif(priorities, topic, due_date, success_rate, tdy) ==
    LET item == RevisionItem(topic, due_date, success_rate)
        p1 == IF DateTimeLt(due_date, tdy)
              THEN [priorities EXCEPT !.overdue = Append(@, item)]
              ELSE priorities
    IN  IF date(due_date) = date(tdy)
        THEN [p1 EXCEPT !.due_today = Append(@, item)]
        ELSE IF DateTimeLt(due_date, tdy) THEN p1
        ELSE IF success_rate < WeakThreshold
        THEN [p1 EXCEPT !.weak_areas = Append(@, item)]
        ELSE [p1 EXCEPT !.upcoming = Append(@, item)]

\* mutant: the weak-area test is made before the date tests
ClassifyRevision_WeakFirst(priorities, topic, due_date, success_rate, tdy) ==
    LET item == RevisionItem(topic, due_date, success_rate)
    IN  IF success_rate < WeakThreshold
        THEN [priorities EXCEPT !.weak_areas = Append(@, item)]
        ELSE IF DateTimeLt(due_date, tdy)
        THEN [priorities EXCEPT !.overdue = Append(@, item)]
        ELSE IF date(due_date) = date(tdy)
        THEN [priorities EXCEPT !.due_today = Append(@, item)]
        ELSE [priorities EXCEPT !.upcoming = Append(@, item)]

\* mutant: the overdue comparison is written the other way round
ClassifyRevision_Reversed(priorities, topic, due_date, success_rate, tdy) ==
    LET item == RevisionItem(topic, due_date, success_rate)
    IN  IF DateTimeLt(tdy, due_date)
        THEN [priorities EXCEPT !.overdue = Append(@, item)]
        ELSE IF date(due_date) = date(tdy)
        THEN [priorities EXCEPT !.due_today = Append(@, item)]
        ELSE IF success_rate < WeakThreshold
        THEN [priorities EXCEPT !.weak_areas = Append(@, item)]
        ELSE [priorities EXCEPT !.upcoming = Append(@, item)]

\* the if / elif / elif / else chain of one revision
ClassifyRevision(priorities, topic, due_date, success_rate, tdy) ==
    LET item == RevisionItem(topic, due_date, success_rate)
    IN  IF DateTimeLt(due_date, tdy)
        THEN [priorities EXCEPT !.overdue = Append(@, item)]
        ELSE IF date(due_date) = date(tdy)
        THEN [priorities EXCEPT !.due_today = Append(@, item)]
        ELSE IF success_rate < WeakThreshold
        THEN [priorities EXCEPT !.weak_areas = Append(@, item)]
        ELSE [priorities EXCEPT !.upcoming = Append(@, item)]

\* a revision the loop body processes to the end: a dict whose due_date parses
RevisionAccepted(revision) ==
    /\ revision.isdict
    /\ "due_date" \in revision.keys
    /\ IsIsoFormat(revision.due_date)

\* revision.get("success_rate", 1.0)
RevisionRate(revision) ==
    IF "success_rate" \in revision.keys THEN revision.success_rate ELSE DefaultRate

\* mutant: a revision equal to one already classified is dropped
ProcessRevision_SkipDuplicates(priorities, topic, revision, tdy) ==
    IF ~revision.isdict THEN priorities
    ELSE IF "due_date" \notin revision.keys THEN priorities
    ELSE IF ~IsIsoFormat(revision.due_date) THEN priorities
    ELSE LET item == RevisionItem(topic, fromisoformat(revision.due_date), RevisionRate(revision))
             seen == \E b \in {"overdue", "due_today", "weak_areas", "upcoming"} :
                        \E k \in DOMAIN priorities[b] : priorities[b][k] = item
         IN  IF seen THEN priorities
             ELSE ClassifyRevision(priorities, topic, fromisoformat(revision.due_date),
                                   RevisionRate(revision), tdy)

\* body of the inner loop: skip what is no dict, and what raises in the try block
ProcessRevision(priorities, topic, revision, tdy) ==
    IF ~revision.isdict THEN priorities
    ELSE IF "due_date" \notin revision.keys THEN priorities
    ELSE IF ~IsIsoFormat(revision.due_date) THEN priorities
    ELSE ClassifyRevision(priorities, topic, fromisoformat(revision.due_date),
                          RevisionRate(revision), tdy)

RECURSIVE ProcessRevList(_, _, _, _, _)
ProcessRevList(priorities, topic, items, i, tdy) ==
    IF i > Len(items) THEN priorities
    ELSE ProcessRevList(ProcessRevision(priorities, topic, items[i], tdy), topic, items, i + 1, tdy)

\* mutant: a topic whose value is no list ends the loop
RECURSIVE ProcessTopics_Break(_, _, _, _)
ProcessTopics_Break(priorities, topics, i, tdy) ==
    IF i > Len(topics) THEN priorities
    ELSE IF ~topics[i].rev_list.islist THEN priorities
    ELSE ProcessTopics_Break(ProcessRevList(priorities, topics[i].topic,
                                            topics[i].rev_list.items, 1, tdy),
                             topics, i + 1, tdy)

RECURSIVE ProcessTopics(_, _, _, _)
ProcessTopics(priorities, topics, i, tdy) ==
    IF i > Len(topics) THEN priorities
    ELSE IF ~topics[i].rev_list.islist THEN ProcessTopics(priorities, topics, i + 1, tdy)
    ELSE ProcessTopics(ProcessRevList(priorities, topics[i].topic, topics[i].rev_list.items, 1, tdy),
                       topics, i + 1, tdy)

get_gk_priorities(gk, tdy) ==
    IF "revisions" \notin gk.keys THEN EmptyPriorities
    ELSE IF ~gk.revisions.isdict THEN EmptyPriorities
    ELSE ProcessTopics(EmptyPriorities, gk.revisions.items, 1, tdy)

(***************************************************************************)
(* get_maths_priorities, get_reasoning_priorities                          *)
(***************************************************************************)
\* d.get(key) or ...: the value under key when the key is present and not ""
Truthy(d, key) == key \in d.keys /\ d[key] # ""

\* mutant: "chapter" is looked up before "name"
ChapterName_ChapterFirst(chapter_item) ==
    IF Truthy(chapter_item, "chapter") THEN chapter_item.chapter
    ELSE IF Truthy(chapter_item, "name") THEN chapter_item.name
    ELSE "Unknown"

\* chapter_item.get("name") or chapter_item.get("chapter") or "Unknown"
ChapterName(chapter_item) ==
    IF Truthy(chapter_item, "name") THEN chapter_item.name
    ELSE IF Truthy(chapter_item, "chapter") THEN chapter_item.chapter
    ELSE "Unknown"

\* topic_item.get("name") or topic_item.get("topic") or "Unknown"
TopicName(topic_item) ==
    IF Truthy(topic_item, "name") THEN topic_item.name
    ELSE IF Truthy(topic_item, "topic") THEN topic_item.topic
    ELSE "Unknown"

\* item.get("next_practice_date", today.isoformat())
NextPracticeStr(item, tdy) ==
    IF "next_practice_date" \in item.keys THEN item.next_practice_date ELSE isoformat(tdy)

\* mutant: a missing accuracy counts as 0.0
PracticeAccuracy_DefaultZero(item) ==
    IF "accuracy" \in item.keys THEN item.accuracy ELSE 0

\* item.get("accuracy", 1.0)
PracticeAccuracy(item) ==
    IF "accuracy" \in item.keys THEN item.accuracy ELSE DefaultRate

\* mutant: the datetimes are compared, time of day included
PracticeDue_WithTime(next_practice, tdy) ==
    DateTimeLt(next_practice, tdy) \/ next_practice = tdy

\* next_practice.date() <= today.date()
PracticeDue(next_practice, tdy) == date(next_practice) <= date(tdy)

\* "HIGH" if accuracy < 0.7 else "MEDIUM"
PracticePriority(accuracy) ==
    IF accuracy < WeakThreshold THEN "HIGH" ELSE "MEDIUM"

\* mutant: a due chapter is put at the head of the list
ProcessChapter_Prepend(priorities, chapter_item, tdy) ==
    IF ~chapter_item.isdict THEN priorities
    ELSE IF ~IsIsoFormat(NextPracticeStr(chapter_item, tdy)) THEN priorities
    ELSE LET next_practice == fromisoformat(NextPracticeStr(chapter_item, tdy))
             accuracy == PracticeAccuracy(chapter_item)
         IN  IF PracticeDue(next_practice, tdy)
             THEN <<[chapter |-> ChapterName(chapter_item),
                     next_practice_date |-> next_practice,
                     accuracy |-> accuracy,
                     priority |-> PracticePriority(accuracy)]>> \o priorities
             ELSE priorities

\* body of the loop of get_maths_priorities
ProcessChapter(priorities, chapter_item, tdy) ==
    IF ~chapter_item.isdict THEN priorities
    ELSE IF ~IsIsoFormat(NextPracticeStr(chapter_item, tdy)) THEN priorities
    ELSE LET next_practice == fromisoformat(NextPracticeStr(chapter_item, tdy))
             accuracy == PracticeAccuracy(chapter_item)
         IN  IF PracticeDue(next_practice, tdy)
             THEN Append(priorities, [chapter |-> ChapterName(chapter_item),
                                      next_practice_date |-> next_practice,
                                      accuracy |-> accuracy,
                                      priority |-> PracticePriority(accuracy)])
             ELSE priorities

RECURSIVE ProcessChapters(_, _, _, _)
ProcessChapters(priorities, items, i, tdy) ==
    IF i > Len(items) THEN priorities
    ELSE ProcessChapters(ProcessChapter(priorities, items[i], tdy), items, i + 1, tdy)

\* mutant: the list the items are appended to outlives the call
get_maths_priorities_Accumulating(md, tdy) ==
    IF md.keys = {} THEN maths_priorities
    ELSE IF "chapters" \notin md.keys THEN maths_priorities
    ELSE IF ~md.chapters.islist THEN maths_priorities
    ELSE ProcessChapters(maths_priorities, md.chapters.items, 1, tdy)

get_maths_priorities(md, tdy) ==
    IF md.keys = {} THEN <<>>
    ELSE IF "chapters" \notin md.keys THEN <<>>
    ELSE IF ~md.chapters.islist THEN <<>>
    ELSE ProcessChapters(<<>>, md.chapters.items, 1, tdy)

\* body of the loop of get_reasoning_priorities
ProcessTopicItem(priorities, topic_item, tdy) ==
    IF ~topic_item.isdict THEN priorities
    ELSE IF ~IsIsoFormat(NextPracticeStr(topic_item, tdy)) THEN priorities
    ELSE LET next_practice == fromisoformat(NextPracticeStr(topic_item, tdy))
             accuracy == PracticeAccuracy(topic_item)
         IN  IF PracticeDue(next_practice, tdy)
             THEN Append(priorities, [topic |-> TopicName(topic_item),
                                      next_practice_date |-> next_practice,
                                      accuracy |-> accuracy,
                                      priority |-> PracticePriority(accuracy)])
             ELSE priorities

RECURSIVE ProcessReasoning(_, _, _, _)
ProcessReasoning(priorities, items, i, tdy) ==
    IF i > Len(items) THEN priorities
    ELSE ProcessReasoning(ProcessTopicItem(priorities, items[i], tdy), items, i + 1, tdy)

get_reasoning_priorities(md, tdy) ==
    IF "reasoning" \notin md.keys THEN <<>>
    ELSE IF ~md.reasoning.islist THEN <<>>
    ELSE ProcessReasoning(<<>>, md.reasoning.items, 1, tdy)

(***************************************************************************)
(* generate_daily_plan                                                     *)
(***************************************************************************)
EmptyPlan ==
    [heavy_count |-> 0, medium_count |-> 0, light_count |-> 0, tasks |-> <<>>,
     available_slots |-> <<>>]

\* mutant: the heavy cap is not tested
AdmitMaths_NoCap(p, task) == task.priority = "HIGH"

\* task["priority"] == "HIGH" and plan["heavy_count"] < 1
AdmitMaths(p, task) == task.priority = "HIGH" /\ p.heavy_count < HeavyCap

\* task["priority"] == "HIGH" and plan["medium_count"] < 2
AdmitReasoning(p, task) == task.priority = "HIGH" /\ p.medium_count < MediumCap

\* The two loops run over st = [plan, raised]: the plan dict built so far and
\* whether a KeyError has left the function.  task["chapter"] raises KeyError
\* when the task has no key "chapter".
RECURSIVE MathsLoop(_, _, _)
MathsLoop(st, tasks, i) ==
    IF st.raised \/ i > Len(tasks) THEN st
    ELSE IF ~AdmitMaths(st.plan, tasks[i]) THEN MathsLoop(st, tasks, i + 1)
    ELSE IF "chapter" \notin DOMAIN tasks[i] THEN [st EXCEPT !.raised = TRUE]
    ELSE MathsLoop([st EXCEPT
                       !.plan.tasks = Append(@, [type |-> "maths", name |-> tasks[i].chapter,
                                                 load |-> "Heavy"]),
                       !.plan.heavy_count = @ + 1],
                   tasks, i + 1)

RECURSIVE ReasoningLoop(_, _, _)
ReasoningLoop(st, tasks, i) ==
    IF st.raised \/ i > Len(tasks) THEN st
    ELSE IF ~AdmitReasoning(st.plan, tasks[i]) THEN ReasoningLoop(st, tasks, i + 1)
    ELSE IF "chapter" \notin DOMAIN tasks[i] THEN [st EXCEPT !.raised = TRUE]
    ELSE ReasoningLoop([st EXCEPT
                           !.plan.tasks = Append(@, [type |-> "reasoning",
                                                     name |-> tasks[i].chapter,
                                                     load |-> "Medium"]),
                           !.plan.medium_count = @ + 1],
                       tasks, i + 1)

\* the aggregate GK line
GkLine(st, gk_p) ==
    IF st.raised THEN st
    ELSE LET overdue_count == Len(gk_p.overdue)
             due_today_count == Len(gk_p.due_today)
         IN  IF overdue_count > 0 \/ due_today_count > 0
             THEN [st EXCEPT !.plan.tasks =
                      Append(@, [type |-> "gk", name |-> "GK Revisions", load |-> "Light",
                                 count |-> overdue_count + due_today_count])]
             ELSE st

\* [plan, raised]: the plan dict when the function is left, by return or by KeyError
generate_daily_plan(tdy, gk_p, maths_p, reasoning_p) ==
    GkLine(ReasoningLoop(MathsLoop([plan |-> EmptyPlan, raised |-> FALSE], maths_p, 1),
                         reasoning_p, 1),
           gk_p)

(***************************************************************************)
(* anti_zero_day_rule                                                      *)
(***************************************************************************)
IsWeakMaths(t) == (IF "accuracy" \in DOMAIN t THEN t.accuracy ELSE DefaultRate) < WeakThreshold

\* mutant: the practice lists are left out of the total
TotalTasks_GkOnly(gk_p, maths_p, reasoning_p) ==
    Len(gk_p.overdue) + Len(gk_p.due_today)

\* total_tasks
TotalTasks(gk_p, maths_p, reasoning_p) ==
    Len(gk_p.overdue) + Len(gk_p.due_today) + Len(maths_p) + Len(reasoning_p)

anti_zero_day_rule(gk_p, maths_p, reasoning_p) ==
    IF TotalTasks(gk_p, maths_p, reasoning_p) = 0
    THEN LET weak_maths == SelectSeq(maths_p, IsWeakMaths)
         IN  IF weak_maths # <<>>
             THEN <<"Practice weak area: ", weak_maths[1].chapter>>
             ELSE <<"Take a mixed GK quiz to maintain momentum">>
    ELSE <<>>

(***************************************************************************)
(* exam_proximity_mode                                                     *)
(***************************************************************************)
\* An exam_date value is [type, s]: a JSON string (type "str", s its text as
\* an ISO tuple, <<>> the empty string), a non-zero JSON number (type "int")
\* or null (type "null").

\* the value is truthy: "not exam_date" is False
ExamTruthy(v) == (v.type = "str" /\ v.s # <<>>) \/ v.type = "int"

\* (a - b).days: timedelta normalises to days, 0 <= seconds < 86400, so the
\* days are the floor of the difference
DaysBetween(a, b) == ((a.ord * 24 + a.hour) - (b.ord * 24 + b.hour)) \div 24

\* 0 <= days_to_exam <= 60
InWindow(days_to_exam) == 0 <= days_to_exam /\ days_to_exam <= 60

\* [value, raised]: the boolean returned, or raised when datetime.fromisoformat
\* raises (TypeError for a value that is no string, ValueError for a string
\* that is no date); nothing in the function catches it
exam_proximity_mode(md, tdy) ==
    IF "exam_date" \notin md.keys THEN [value |-> FALSE, raised |-> FALSE]
    ELSE IF ~ExamTruthy(md.exam_date) THEN [value |-> FALSE, raised |-> FALSE]
    ELSE IF md.exam_date.type # "str" THEN [value |-> FALSE, raised |-> TRUE]
    ELSE IF ~IsIsoFormat(md.exam_date.s) THEN [value |-> FALSE, raised |-> TRUE]
    ELSE [value |-> InWindow(DaysBetween(fromisoformat(md.exam_date.s), tdy)),
          raised |-> FALSE]

(***************************************************************************)
(* generate_7day_plan                                                      *)
(***************************************************************************)
ForecastDays == 7

\* dt + timedelta(days = n)
AddDays(dt, n) == [ord |-> dt.ord + n, hour |-> dt.hour]

\* len([t for t in priorities if t["priority"] == "HIGH"])
CountHigh(priorities) == Len(SelectSeq(priorities, LAMBDA t : t.priority = "HIGH"))

\* mutant: a maths day is Heavy whatever the reasoning count
LoadLabel_NoDowngrade(gk_count, maths_count, reasoning_count) ==
    IF maths_count > 0 THEN "Heavy"
    ELSE IF gk_count = 0 /\ reasoning_count > 0 THEN "Medium"
    ELSE IF gk_count > 3 THEN "Medium"
    ELSE "Light"

\* the load of a day
LoadLabel(gk_count, maths_count, reasoning_count) ==
    IF maths_count > 0 \/ (gk_count = 0 /\ reasoning_count > 0)
    THEN (IF reasoning_count > 0 THEN "Medium" ELSE "Heavy")
    ELSE IF gk_count > 3 THEN "Medium"
    ELSE "Light"

\* mutant: the offsets run from 1 to 7
CurrentDate_FromOne(tdy, day_offset) == AddDays(tdy, day_offset + 1)

\* current_date = today + timedelta(days=day_offset)
CurrentDate(tdy, day_offset) == AddDays(tdy, day_offset)

\* mutant: gk_count leaves out the overdue revisions
DayRecord_DueTodayOnly(current_date, gk, md) ==
    LET gk_p == get_gk_priorities(gk, current_date)
        gk_count == Len(gk_p.due_today)
        maths_count == CountHigh(get_maths_priorities(md, current_date))
        reasoning_count == CountHigh(get_reasoning_priorities(md, current_date))
    IN  [date |-> current_date, gk_count |-> gk_count, maths_count |-> maths_count,
         reasoning_count |-> reasoning_count,
         load |-> LoadLabel(gk_count, maths_count, reasoning_count)]

\* the record appended for one day
DayRecord(current_date, gk, md) ==
    LET gk_p == get_gk_priorities(gk, current_date)
        gk_count == Len(gk_p.overdue) + Len(gk_p.due_today)
        maths_count == CountHigh(get_maths_priorities(md, current_date))
        reasoning_count == CountHigh(get_reasoning_priorities(md, current_date))
    IN  [date |-> current_date, gk_count |-> gk_count, maths_count |-> maths_count,
         reasoning_count |-> reasoning_count,
         load |-> LoadLabel(gk_count, maths_count, reasoning_count)]

\* for day_offset in range(7)
RECURSIVE ForecastLoop(_, _, _, _, _)
ForecastLoop(plan7, day_offset, tdy, gk, md) ==
    IF day_offset >= ForecastDays THEN plan7
    ELSE ForecastLoop(Append(plan7, DayRecord(CurrentDate(tdy, day_offset), gk, md)),
                      day_offset + 1, tdy, gk, md)

generate_7day_plan(tdy, gk, md) == ForecastLoop(<<>>, 0, tdy, gk, md)

(***************************************************************************)
(* Schedule data the operations are applied to.                            *)
(***************************************************************************)
\* the reference day is 2024-02-01; the dates of the entries lie around it
Yesterday == <<2024, 1, 31>>

TodayMidnight == <<2024, 2, 1>>

TodayEvening == <<2024, 2, 1, 18>>

Tomorrow == <<2024, 2, 2>>

NotADate == <<2024, 2, 30>>

Revision(due, rate) ==
    [isdict |-> TRUE, keys |-> {"due_date", "success_rate"}, due_date |-> due,
     success_rate |-> rate]

RevisionNoRate(due) ==
    [isdict |-> TRUE, keys |-> {"due_date"}, due_date |-> due, success_rate |-> 0]

RevisionEntries ==
    {Revision(Yesterday, 50), Revision(TodayMidnight, 50), Revision(TodayEvening, 50),
     Revision(Tomorrow, 50), Revision(Tomorrow, 70), RevisionNoRate(Tomorrow),
     Revision(NotADate, 50)}

Chapter(name, next, acc) ==
    [isdict |-> TRUE, keys |-> {"name", "next_practice_date", "accuracy"}, name |-> name,
     chapter |-> "", topic |-> "", next_practice_date |-> next, accuracy |-> acc]

ChapterEntries ==
    {Chapter("Algebra", Yesterday, 65), Chapter("Geometry", TodayMidnight, 65),
     Chapter("Mensuration", TodayEvening, 65), Chapter("Profit", TodayMidnight, 70),
     Chapter("Ratio", TodayMidnight, 75), Chapter("Trigonometry", Tomorrow, 50),
     Chapter("Percentage", Tomorrow, 70)}

ReasoningTopic(name, next, acc) ==
    [isdict |-> TRUE, keys |-> {"topic", "next_practice_date", "accuracy"}, name |-> "",
     chapter |-> "", topic |-> name, next_practice_date |-> next, accuracy |-> acc]

ReasoningEntries ==
    {ReasoningTopic("Analogy", Yesterday, 65), ReasoningTopic("Series", TodayMidnight, 65),
     ReasoningTopic("Coding", TodayEvening, 65), ReasoningTopic("Syllogism", TodayMidnight, 70),
     ReasoningTopic("Puzzles", TodayMidnight, 75), ReasoningTopic("Venn", Tomorrow, 65),
     ReasoningTopic("Blood", Tomorrow, 70)}

\* the values of datetime.now() the operations are given: midnight and noon
TodayValues ==
    {[ord |-> ToOrdinal(2024, 2, 1), hour |-> 0], [ord |-> ToOrdinal(2024, 2, 1), hour |-> 12]}

SeqsUpTo(S, n) == UNION {[1..k -> S] : k \in 0..n}

List(items) == [islist |-> TRUE, items |-> items]

NotAList == [islist |-> FALSE, items |-> <<>>]

\* gk_data: no "revisions" key, "revisions" that is no dict, or one topic
GkData(revs) ==
    [keys |-> {"revisions"},
     revisions |-> [isdict |-> TRUE, items |-> <<[topic |-> "Polity", rev_list |-> List(revs)]>>]]

GkDataNoKey == [keys |-> {}, revisions |-> [isdict |-> FALSE, items |-> <<>>]]

GkDataNotADict == [keys |-> {"revisions"}, revisions |-> [isdict |-> FALSE, items |-> <<>>]]

MathsData(chs, rs) ==
    [keys |-> {"chapters", "reasoning"}, chapters |-> List(chs), reasoning |-> List(rs)]

MathsDataEmpty == [keys |-> {}, chapters |-> NotAList, reasoning |-> NotAList]

MathsDataNotLists == [keys |-> {"chapters", "reasoning"}, chapters |-> NotAList, reasoning |-> NotAList]

(***************************************************************************)
(* The state machine: the data is loaded, then the operations are applied. *)
(***************************************************************************)
Init ==
    /\ \E revs \in SeqsUpTo(RevisionEntries, MaxItems) :
         \E chs \in SeqsUpTo(ChapterEntries, MaxItems - Len(revs)) :
           \E rs \in SeqsUpTo(ReasoningEntries, MaxItems - Len(revs) - Len(chs)) :
             /\ gk_data \in {GkData(revs)} \cup (IF revs = <<>> THEN {GkDataNoKey, GkDataNotADict} ELSE {})
             /\ maths_data \in {MathsData(chs, rs)}
                    \cup (IF chs = <<>> /\ rs = <<>> THEN {MathsDataEmpty, MathsDataNotLists} ELSE {})
    /\ today \in TodayValues
    /\ called = {}
    /\ gk_priorities = EmptyPriorities
    /\ maths_priorities = <<>>
    /\ reasoning_priorities = <<>>
    /\ plan = EmptyPlan
    /\ plan_raised = FALSE
    /\ zero_day_guidance = <<>>
    /\ exam_proximity = FALSE
    /\ exam_raised = FALSE
    /\ plan_7day = <<>>
    /\ call_log = <<>>

\* main: gk_priorities = get_gk_priorities(gk_data, today)
GetGkPriorities ==
    /\ called = {}
    /\ gk_priorities' = get_gk_priorities(gk_data, today)
    /\ called' = {"get_gk_priorities"}
    /\ UNCHANGED <<gk_data, maths_data, today, maths_priorities, reasoning_priorities, plan, plan_raised, zero_day_guidance, exam_proximity, exam_raised, plan_7day, call_log>>

\* main: maths_priorities = get_maths_priorities(maths_data, today)
GetMathsPriorities ==
    /\ called = {"get_gk_priorities"}
    /\ maths_priorities' = get_maths_priorities(maths_data, today)
    /\ called' = called \cup {"get_maths_priorities"}
    /\ UNCHANGED <<gk_data, maths_data, today, gk_priorities, reasoning_priorities, plan, plan_raised, zero_day_guidance, exam_proximity, exam_raised, plan_7day, call_log>>

\* main: reasoning_priorities = get_reasoning_priorities(maths_data, today)
GetReasoningPriorities ==
    /\ called = {"get_gk_priorities", "get_maths_priorities"}
    /\ reasoning_priorities' = get_reasoning_priorities(maths_data, today)
    /\ called' = called \cup {"get_reasoning_priorities"}
    /\ UNCHANGED <<gk_data, maths_data, today, gk_priorities, maths_priorities, plan, plan_raised, zero_day_guidance, exam_proximity, exam_raised, plan_7day, call_log>>

Classified == {"get_gk_priorities", "get_maths_priorities", "get_reasoning_priorities"}

\* generate_daily_plan(today, gk_priorities, maths_priorities, reasoning_priorities)
GenerateDailyPlan ==
    /\ Classified \subseteq called
    /\ "generate_daily_plan" \notin called
    /\ LET st == generate_daily_plan(today, gk_priorities, maths_priorities, reasoning_priorities)
       IN  /\ plan' = st.plan
           /\ plan_raised' = st.raised
    /\ called' = called \cup {"generate_daily_plan"}
    /\ UNCHANGED <<gk_data, maths_data, today, gk_priorities, maths_priorities, reasoning_priorities, zero_day_guidance, exam_proximity, exam_raised, plan_7day, call_log>>

\* main: zero_day_guidance = anti_zero_day_rule(gk_priorities, maths_priorities, reasoning_priorities)
AntiZeroDayRule ==
    /\ Classified \subseteq called
    /\ "anti_zero_day_rule" \notin called
    /\ zero_day_guidance' = anti_zero_day_rule(gk_priorities, maths_priorities, reasoning_priorities)
    /\ called' = called \cup {"anti_zero_day_rule"}
    /\ UNCHANGED <<gk_data, maths_data, today, gk_priorities, maths_priorities, reasoning_priorities, plan, plan_raised, exam_proximity, exam_raised, plan_7day, call_log>>

Next ==
    \/ GetGkPriorities
    \/ GetMathsPriorities
    \/ GetReasoningPriorities
    \/ GenerateDailyPlan
    \/ AntiZeroDayRule

Spec == Init /\ [][Next]_vars

(***************************************************************************)
(* exam_proximity_mode applied to maths data with an exam_date.            *)
(***************************************************************************)
ExamStr(s) == [type |-> "str", s |-> s]

\* exam dates around the reference days: before, on the day, 59 to 62 days on
ExamDateStrings ==
    {<<2024, 1, 30>>, <<2024, 1, 31>>, <<2024, 2, 1>>, <<2024, 2, 1, 18>>, <<2024, 2, 2>>,
     <<2024, 3, 31>>, <<2024, 4, 1>>, <<2024, 4, 1, 18>>, <<2024, 4, 2>>, <<2024, 4, 3>>,
     <<2024, 4, 4>>}

ExamDateValues ==
    {ExamStr(s) : s \in ExamDateStrings}
        \cup {ExamStr(<<>>), ExamStr(<<2024, 4, 31>>), ExamStr(<<0>>),
              [type |-> "int", s |-> <<>>], [type |-> "null", s |-> <<>>]}

MathsDataExam(v) ==
    [keys |-> {"chapters", "reasoning", "exam_date"}, chapters |-> List(<<>>),
     reasoning |-> List(<<>>), exam_date |-> v]

ExamTodayValues ==
    {[ord |-> ToOrdinal(2024, 2, d), hour |-> h] : d \in {1, 2}, h \in {0, 12, 23}}

InitExam ==
    /\ gk_data = GkData(<<>>)
    /\ maths_data \in {MathsDataExam(v) : v \in ExamDateValues} \cup {MathsData(<<>>, <<>>)}
    /\ today \in ExamTodayValues
    /\ called = {}
    /\ gk_priorities = EmptyPriorities
    /\ maths_priorities = <<>>
    /\ reasoning_priorities = <<>>
    /\ plan = EmptyPlan
    /\ plan_raised = FALSE
    /\ zero_day_guidance = <<>>
    /\ exam_proximity = FALSE
    /\ exam_raised = FALSE
    /\ plan_7day = <<>>
    /\ call_log = <<>>

\* main: exam_proximity = exam_proximity_mode(maths_data, today)
ExamProximityMode ==
    /\ "exam_proximity_mode" \notin called
    /\ LET r == exam_proximity_mode(maths_data, today)
       IN  /\ exam_proximity' = r.value
           /\ exam_raised' = r.raised
    /\ called' = called \cup {"exam_proximity_mode"}
    /\ UNCHANGED <<gk_data, maths_data, today, gk_priorities, maths_priorities, reasoning_priorities, plan, plan_raised, zero_day_guidance, plan_7day, call_log>>

NextExam == ExamProximityMode

SpecExam == InitExam /\ [][NextExam]_vars

(***************************************************************************)
(* generate_7day_plan applied to data whose due dates spread over the week. *)
(***************************************************************************)
ForecastRevisions == {Revision(Yesterday, 50), Revision(<<2024, 2, 3, 18>>, 50)}

ForecastChapters ==
    {Chapter("Geometry", <<2024, 2, 4>>, 65), Chapter("Profit", TodayMidnight, 70)}

ForecastReasoning ==
    {ReasoningTopic("Analogy", Yesterday, 65), ReasoningTopic("Series", <<2024, 2, 6>>, 65)}

InitForecast ==
    /\ gk_data \in {GkData(revs) : revs \in SeqsUpTo(ForecastRevisions, MaxForecastGk)}
    /\ maths_data \in {MathsData(chs, rs) :
                          chs \in SeqsUpTo(ForecastChapters, MaxForecastPractice),
                          rs \in SeqsUpTo(ForecastReasoning, MaxForecastPractice)}
    /\ today \in TodayValues
    /\ called = {}
    /\ gk_priorities = EmptyPriorities
    /\ maths_priorities = <<>>
    /\ reasoning_priorities = <<>>
    /\ plan = EmptyPlan
    /\ plan_raised = FALSE
    /\ zero_day_guidance = <<>>
    /\ exam_proximity = FALSE
    /\ exam_raised = FALSE
    /\ plan_7day = <<>>
    /\ call_log = <<>>

\* main: plan_7day = generate_7day_plan(today, gk_data, maths_data)
Generate7DayPlan ==
    /\ "generate_7day_plan" \notin called
    /\ plan_7day' = generate_7day_plan(today, gk_data, maths_data)
    /\ called' = called \cup {"generate_7day_plan"}
    /\ UNCHANGED <<gk_data, maths_data, today, gk_priorities, maths_priorities, reasoning_priorities, plan, plan_raised, zero_day_guidance, exam_proximity, exam_raised, call_log>>

NextForecast == Generate7DayPlan

SpecForecast == InitForecast /\ [][NextForecast]_vars

(***************************************************************************)
(* The classifiers applied to user-maintained data with malformed entries, *)
(* wrongly shaped sections and name keys of every kind.                    *)
(***************************************************************************)
\* a list element that is no dict
NotADictEntry == [isdict |-> FALSE, keys |-> {}]

RevisionNoDate(rate) ==
    [isdict |-> TRUE, keys |-> {"success_rate"}, due_date |-> <<>>, success_rate |-> rate]

DirtyRevisions ==
    {Revision(Yesterday, 50), Revision(Tomorrow, 70), RevisionNoRate(Tomorrow),
     RevisionNoDate(50), Revision(NotADate, 50), NotADictEntry}

PracticeNoDate(namekey, name, acc) ==
    [isdict |-> TRUE, keys |-> {namekey, "accuracy"}, name |-> name, chapter |-> name,
     topic |-> name, next_practice_date |-> <<>>, accuracy |-> acc]

PracticeNoAccuracy(namekey, name, next) ==
    [isdict |-> TRUE, keys |-> {namekey, "next_practice_date"}, name |-> name,
     chapter |-> name, topic |-> name, next_practice_date |-> next, accuracy |-> 0]

DirtyChapters ==
    {Chapter("Algebra", Yesterday, 65), PracticeNoDate("name", "Surds", 65),
     Chapter("Roots", NotADate, 65), PracticeNoAccuracy("name", "Indices", TodayMidnight),
     NotADictEntry}

DirtyReasoning ==
    {ReasoningTopic("Analogy", Yesterday, 65), PracticeNoDate("topic", "Clocks", 65),
     ReasoningTopic("Dice", NotADate, 65), PracticeNoAccuracy("topic", "Mirror", TodayMidnight),
     NotADictEntry}

\* gk_data with two topics, in this order; each value is a list or not
GkDataTopics(history, polity) ==
    [keys |-> {"revisions"},
     revisions |-> [isdict |-> TRUE,
                    items |-> <<[topic |-> "History", rev_list |-> history],
                                [topic |-> "Polity", rev_list |-> polity]>>]]

\* maths_data with the sections named in keys
MathsDataKeys(keys, chapters, reasoning) ==
    [keys |-> keys, chapters |-> chapters, reasoning |-> reasoning]

\* the values a section of n entries at most can have: a list, or no list
Section(entries, n) == {List(items) : items \in SeqsUpTo(entries, n)} \cup {NotAList}

\* the key sets a maths_data can have: a key is absent only over an empty section
SectionKeys(chapters, reasoning) ==
    {k \in SUBSET {"chapters", "reasoning"} :
        /\ chapters # List(<<>>) => "chapters" \in k
        /\ reasoning # List(<<>>) => "reasoning" \in k}

\* a practice entry due today whose name keys are given one by one: a key is
\* absent ("-"), present with the empty string, or present with a name
NamedPractice(name, chapter, topic) ==
    [isdict |-> TRUE,
     keys |-> {"next_practice_date", "accuracy"}
                  \cup (IF name = "-" THEN {} ELSE {"name"})
                  \cup (IF chapter = "-" THEN {} ELSE {"chapter"})
                  \cup (IF topic = "-" THEN {} ELSE {"topic"}),
     name |-> name, chapter |-> chapter, topic |-> topic,
     next_practice_date |-> TodayMidnight, accuracy |-> 70]

NamedEntries ==
    {NamedPractice(n, c, t) : n \in {"-", "", "Name"}, c \in {"-", "", "Chapter"},
                              t \in {"-", "", "Topic"}}

\* what a section takes of the MaxItems budget: its entries, or one when it is no list
Size(section) == IF section.islist THEN Len(section.items) ELSE 1

InitDirty ==
    /\ \/ \E history \in Section(DirtyRevisions, MaxItems) :
            \E polity \in Section(DirtyRevisions, MaxItems - Size(history)) :
              \E chapters \in Section(DirtyChapters, MaxItems - Size(history) - Size(polity)) :
                \E reasoning \in Section(DirtyReasoning,
                                         MaxItems - Size(history) - Size(polity)
                                             - Size(chapters)) :
                  /\ gk_data \in {GkDataTopics(history, polity)}
                        \cup (IF history.items = <<>> /\ polity.items = <<>>
                              THEN {GkDataNoKey, GkDataNotADict} ELSE {})
                  /\ maths_data \in {MathsDataKeys(k, chapters, reasoning) :
                                        k \in SectionKeys(chapters, reasoning)}
       \/ /\ gk_data = GkDataNoKey
          /\ \E e \in NamedEntries :
               maths_data = MathsDataKeys({"chapters", "reasoning"}, List(<<e>>), List(<<e>>))
    /\ today \in TodayValues
    /\ called = {}
    /\ gk_priorities = EmptyPriorities
    /\ maths_priorities = <<>>
    /\ reasoning_priorities = <<>>
    /\ plan = EmptyPlan
    /\ plan_raised = FALSE
    /\ zero_day_guidance = <<>>
    /\ exam_proximity = FALSE
    /\ exam_raised = FALSE
    /\ plan_7day = <<>>
    /\ call_log = <<>>

NextClassify ==
    \/ GetGkPriorities
    \/ GetMathsPriorities
    \/ GetReasoningPriorities

SpecDirty == InitDirty /\ [][NextClassify]_vars

(***************************************************************************)
(* The classifiers called again and again, in any order, on the same data  *)
(* and the same today (main calls each once; generate_7day_plan calls each *)
(* again for every day of the forecast).                                   *)
(***************************************************************************)
MaxCalls == 4

RepeatGkData ==
    {GkData(<<a, Revision(Yesterday, 50)>>) : a \in RevisionEntries} \cup {GkDataNoKey}

RepeatMathsData ==
    {MathsData(<<c>>, <<r>>) :
        c \in ChapterEntries,
        r \in {ReasoningTopic("Analogy", Yesterday, 65), ReasoningTopic("Venn", Tomorrow, 65)}}

InitRepeat ==
    /\ gk_data \in RepeatGkData
    /\ maths_data \in RepeatMathsData
    /\ today \in TodayValues
    /\ called = {}
    /\ gk_priorities = EmptyPriorities
    /\ maths_priorities = <<>>
    /\ reasoning_priorities = <<>>
    /\ plan = EmptyPlan
    /\ plan_raised = FALSE
    /\ zero_day_guidance = <<>>
    /\ exam_proximity = FALSE
    /\ exam_raised = FALSE
    /\ plan_7day = <<>>
    /\ call_log = <<>>

\* gk_priorities = get_gk_priorities(gk_data, today), at any time
CallGkPriorities ==
    /\ Len(call_log) < MaxCalls
    /\ gk_priorities' = get_gk_priorities(gk_data, today)
    /\ called' = called \cup {"get_gk_priorities"}
    /\ call_log' = Append(call_log, "get_gk_priorities")
    /\ UNCHANGED <<gk_data, maths_data, today, maths_priorities, reasoning_priorities, plan, plan_raised, zero_day_guidance, exam_proximity, exam_raised, plan_7day>>

\* maths_priorities = get_maths_priorities(maths_data, today), at any time
CallMathsPriorities ==
    /\ Len(call_log) < MaxCalls
    /\ maths_priorities' = get_maths_priorities(maths_data, today)
    /\ called' = called \cup {"get_maths_priorities"}
    /\ call_log' = Append(call_log, "get_maths_priorities")
    /\ UNCHANGED <<gk_data, maths_data, today, gk_priorities, reasoning_priorities, plan, plan_raised, zero_day_guidance, exam_proximity, exam_raised, plan_7day>>

\* reasoning_priorities = get_reasoning_priorities(maths_data, today), at any time
CallReasoningPriorities ==
    /\ Len(call_log) < MaxCalls
    /\ reasoning_priorities' = get_reasoning_priorities(maths_data, today)
    /\ called' = called \cup {"get_reasoning_priorities"}
    /\ call_log' = Append(call_log, "get_reasoning_priorities")
    /\ UNCHANGED <<gk_data, maths_data, today, gk_priorities, maths_priorities, plan, plan_raised, zero_day_guidance, exam_proximity, exam_raised, plan_7day>>

NextRepeat ==
    \/ CallGkPriorities
    \/ CallMathsPriorities
    \/ CallReasoningPriorities

SpecRepeat == InitRepeat /\ [][NextRepeat]_vars

(***************************************************************************)
(* Vocabulary of the properties.                                           *)
(***************************************************************************)
Count(seq, x) == Cardinality({i \in DOMAIN seq : seq[i] = x})

Elems(seq) == {seq[i] : i \in DOMAIN seq}

BucketNames == {"overdue", "due_today", "weak_areas", "upcoming"}

\* positions <<t, i>> of the revisions of gk_data that are dicts with a parseable due_date
AcceptedSlots ==
    IF "revisions" \in gk_data.keys /\ gk_data.revisions.isdict
    THEN {s \in (DOMAIN gk_data.revisions.items) \X (1..MaxItems + 1) :
            /\ gk_data.revisions.items[s[1]].rev_list.islist
            /\ s[2] \in DOMAIN gk_data.revisions.items[s[1]].rev_list.items
            /\ RevisionAccepted(gk_data.revisions.items[s[1]].rev_list.items[s[2]])}
    ELSE {}

SlotEntry(s) == gk_data.revisions.items[s[1]].rev_list.items[s[2]]

\* the output item of the revision at position s
SlotItem(s) ==
    RevisionItem(gk_data.revisions.items[s[1]].topic, fromisoformat(SlotEntry(s).due_date),
                 RevisionRate(SlotEntry(s)))

\* get_gk_priorities has just returned (no later operation changes its result)
GkDone == called = {"get_gk_priorities"}

\* how many times item x occurs over the four buckets
Occurrences(x) ==
    Count(gk_priorities.overdue, x) + Count(gk_priorities.due_today, x)
        + Count(gk_priorities.weak_areas, x) + Count(gk_priorities.upcoming, x)

AllBucketItems ==
    Elems(gk_priorities.overdue) \cup Elems(gk_priorities.due_today)
        \cup Elems(gk_priorities.weak_areas) \cup Elems(gk_priorities.upcoming)

\* C1: every accepted revision is in exactly one of the four buckets: each item
\* occurs over the buckets as often as accepted revisions produce it, and no
\* item occurs in two different buckets.
C1_ExactlyOneBucket ==
    GkDone =>
        /\ \A x \in AllBucketItems \cup {SlotItem(s) : s \in AcceptedSlots} :
             Occurrences(x) = Cardinality({s \in AcceptedSlots : SlotItem(s) = x})
        /\ \A b1, b2 \in BucketNames :
             b1 # b2 => Elems(gk_priorities[b1]) \cap Elems(gk_priorities[b2]) = {}

C1_Witness ==
    /\ GkDone
    /\ today.hour = 12
    /\ Cardinality(AcceptedSlots) = 3
    /\ Len(gk_priorities.overdue) = 1
    /\ Len(gk_priorities.due_today) = 1
    /\ Len(gk_priorities.weak_areas) = 1

\* C2: calendar dates only are compared: a revision due on today's calendar day
\* is in due_today, and overdue holds only revisions due on an earlier day.
C2_CalendarDatesOnly ==
    GkDone =>
        /\ \A s \in AcceptedSlots :
             date(SlotItem(s).due_date) = date(today)
                 => SlotItem(s) \in Elems(gk_priorities.due_today)
        /\ \A x \in Elems(gk_priorities.overdue) : date(x.due_date) < date(today)

\* C3: a revision due after today is in weak_areas iff its success_rate is
\* below 0.70 and in upcoming otherwise; weak_areas holds no revision that is
\* due today or earlier.
C3_WeakOnlyAfterToday ==
    GkDone =>
        /\ \A s \in AcceptedSlots :
             date(SlotItem(s).due_date) > date(today) =>
                 /\ SlotItem(s) \in Elems(gk_priorities.weak_areas)
                        <=> SlotItem(s).success_rate < 70
                 /\ SlotItem(s) \in Elems(gk_priorities.upcoming)
                        <=> SlotItem(s).success_rate >= 70
        /\ \A x \in Elems(gk_priorities.weak_areas) : date(x.due_date) > date(today)
        /\ \A x \in Elems(gk_priorities.overdue) \cup Elems(gk_priorities.due_today) :
             x \notin Elems(gk_priorities.weak_areas)

C3_Witness ==
    /\ GkDone
    /\ \E x \in Elems(gk_priorities.upcoming) : x.success_rate = 70
    /\ \E x \in Elems(gk_priorities.weak_areas) : x.success_rate = 50
    /\ \E x \in Elems(gk_priorities.overdue) \cup Elems(gk_priorities.due_today) :
         x.success_rate = 50

\* the two practice classifiers have just returned
PracticeDone == called = Classified

\* the practice entries of a list that are dicts with a parseable next_practice_date
DatedEntries(list) ==
    {i \in DOMAIN list.items :
        /\ list.items[i].isdict
        /\ "next_practice_date" \in list.items[i].keys
        /\ IsIsoFormat(list.items[i].next_practice_date)}

OnOrBeforeToday(entry) == fromisoformat(entry.next_practice_date).ord <= today.ord

\* C4 for one list: result holds, under the name of each entry, as many items
\* as the list has due entries of that name, and each has the priority its
\* accuracy gives.  (The names of the entries identify them.)
PracticeResultRight(list, result, namekey, inkey) ==
    /\ \A i \in DatedEntries(list) :
         Cardinality({k \in DOMAIN result : result[k][namekey] = list.items[i][inkey]})
             = IF OnOrBeforeToday(list.items[i])
               THEN Cardinality({j \in DatedEntries(list) :
                                    list.items[j][inkey] = list.items[i][inkey]})
               ELSE 0
    /\ \A k \in DOMAIN result :
         /\ result[k].priority = "HIGH" <=> result[k].accuracy < 70
         /\ result[k].priority = "MEDIUM" <=> result[k].accuracy >= 70
         /\ result[k].next_practice_date.ord <= today.ord

\* C4: get_maths_priorities and get_reasoning_priorities return an entry iff
\* its next_practice_date is on or before today's calendar date, with
\* priority HIGH iff its accuracy is below 0.70 and MEDIUM otherwise.
C4_PracticeDueAndPriority ==
    PracticeDone =>
        /\ PracticeResultRight(maths_data.chapters, maths_priorities, "chapter", "name")
        /\ PracticeResultRight(maths_data.reasoning, reasoning_priorities, "topic", "topic")

C4_Witness ==
    /\ PracticeDone
    /\ today.hour = 12
    /\ \E k \in DOMAIN maths_priorities :
         maths_priorities[k].accuracy = 65 /\ maths_priorities[k].priority = "HIGH"
             /\ maths_priorities[k].next_practice_date.hour = 18
    /\ \E i \in DOMAIN maths_data.chapters.items :
         ~OnOrBeforeToday(maths_data.chapters.items[i])
    /\ \E k \in DOMAIN reasoning_priorities :
         reasoning_priorities[k].accuracy = 70 /\ reasoning_priorities[k].priority = "MEDIUM"

PlanDone == "generate_daily_plan" \in called

IsHigh(t) == t.priority = "HIGH"

TasksOfType(type) == SelectSeq(plan.tasks, LAMBDA t : t.type = type)

\* C5: plan.tasks holds min(1, number of HIGH maths items) maths tasks: the
\* first HIGH item in input order, load Heavy; the list passed in is unchanged.
C5_OneHeavyMathsTask ==
    PlanDone =>
        LET high == SelectSeq(maths_priorities, IsHigh)
        IN  /\ TasksOfType("maths") =
                   IF high = <<>> THEN <<>>
                   ELSE <<[type |-> "maths", name |-> high[1].chapter, load |-> "Heavy"]>>
            /\ maths_priorities = get_maths_priorities(maths_data, today)

C5_Witness ==
    /\ PlanDone
    /\ ~plan_raised
    /\ Len(SelectSeq(maths_priorities, IsHigh)) = 3
    /\ Len(plan.tasks) = 1
    /\ plan.tasks[1].name = maths_priorities[1].chapter

\* C6: the returned plan holds min(2, number of HIGH reasoning items)
\* reasoning tasks of load Medium, the first HIGH items in input order, each
\* under its topic name; no error is raised.
C6_TwoMediumReasoningTasks ==
    PlanDone =>
        LET high == SelectSeq(reasoning_priorities, IsHigh)
            n == IF Len(high) < 2 THEN Len(high) ELSE 2
        IN  /\ ~plan_raised
            /\ TasksOfType("reasoning") =
                   [k \in 1..n |-> [type |-> "reasoning", name |-> high[k].topic,
                                    load |-> "Medium"]]

GkDueCount == Len(gk_priorities.overdue) + Len(gk_priorities.due_today)

\* C7: the plan has exactly one gk task, of load Light and count
\* len(overdue) + len(due_today), when that sum is positive, and none when it is 0.
C7_OneGkLine ==
    PlanDone =>
        TasksOfType("gk") =
            IF GkDueCount > 0
            THEN <<[type |-> "gk", name |-> "GK Revisions", load |-> "Light",
                    count |-> GkDueCount]>>
            ELSE <<>>

GuidanceDone == "anti_zero_day_rule" \in called

ActionableTotal == GkDueCount + Len(maths_priorities) + Len(reasoning_priorities)

\* the chapters of maths_data with accuracy below 0.70, due or not
WeakChapters ==
    IF "chapters" \in maths_data.keys /\ maths_data.chapters.islist
    THEN {i \in DOMAIN maths_data.chapters.items :
             maths_data.chapters.items[i].isdict
                 /\ PracticeAccuracy(maths_data.chapters.items[i]) < 70}
    ELSE {}

GenericFallback == <<"Take a mixed GK quiz to maintain momentum">>

\* C8: with an actionable total of zero, the guard names a weak maths chapter
\* when the maths data holds one, and returns the generic fallback only when
\* there is none.
C8_ZeroDayNamesWeakChapter ==
    (GuidanceDone /\ ActionableTotal = 0) =>
        IF WeakChapters # {}
        THEN \E i \in WeakChapters :
                 zero_day_guidance =
                     <<"Practice weak area: ", ChapterName(maths_data.chapters.items[i])>>
        ELSE zero_day_guidance = GenericFallback

\* C9: a returned plan with an empty tasks list comes with a non-empty
\* recommendation of anti_zero_day_rule on the same classifier outputs.
C9_NoEmptyPlanWithoutGuidance ==
    (PlanDone /\ GuidanceDone /\ ~plan_raised /\ plan.tasks = <<>>)
        => zero_day_guidance # <<>>

\* C10: anti_zero_day_rule returns the empty string iff
\* len(overdue) + len(due_today) + len(maths_priorities) + len(reasoning_priorities) > 0.
C10_EmptyIffActionable ==
    GuidanceDone => (zero_day_guidance = <<>> <=> ActionableTotal > 0)

C10_Witness ==
    /\ GuidanceDone
    /\ ActionableTotal = 0
    /\ zero_day_guidance # <<>>
    /\ Len(maths_data.chapters.items) > 0
    /\ Cardinality(AcceptedSlots) > 0


(***************************************************************************)
(* Properties of exam_proximity_mode.                                      *)
(***************************************************************************)
ExamDone == "exam_proximity_mode" \in called

\* maths_data holds an exam_date that is a valid date string
ExamDateParses ==
    /\ "exam_date" \in maths_data.keys
    /\ maths_data.exam_date.type = "str"
    /\ IsIsoFormat(maths_data.exam_date.s)

\* calendar days from today's date to the exam date
CalendarDaysToExam == fromisoformat(maths_data.exam_date.s).ord - today.ord

\* C11: for every today, whatever its time of day, exam_proximity_mode is
\* true iff the exam date is 0 to 60 calendar days after today's date (true
\* at 60, false at 61, false before today).
C11_SixtyCalendarDays ==
    (ExamDone /\ ExamDateParses) =>
        /\ ~exam_raised
        /\ exam_proximity <=> (0 <= CalendarDaysToExam /\ CalendarDaysToExam <= 60)

\* C12: exam_proximity_mode never fails: an exam_date that is absent, empty,
\* no string or no valid date gives false and no error.
C12_NeverFails ==
    (ExamDone /\ ~ExamDateParses) => (~exam_raised /\ ~exam_proximity)


(***************************************************************************)
(* Properties of generate_7day_plan.                                       *)
(***************************************************************************)
ForecastDone == "generate_7day_plan" \in called

\* the decision table of the forecast, on the counts of one record
TableLabel(rec) ==
    IF rec.maths_count > 0 \/ (rec.gk_count = 0 /\ rec.reasoning_count > 0)
    THEN (IF rec.reasoning_count > 0 THEN "Medium" ELSE "Heavy")
    ELSE IF rec.gk_count > 3 THEN "Medium"
    ELSE "Light"

\* C13: the load of every day of the forecast follows the decision table on
\* that day's counts; Heavy occurs exactly when the maths HIGH count is
\* positive and the reasoning HIGH count is 0; without maths and reasoning
\* HIGH items, 4 due GK items give Medium.
C13_LoadTable ==
    ForecastDone =>
        \A k \in DOMAIN plan_7day :
            /\ plan_7day[k].load = TableLabel(plan_7day[k])
            /\ plan_7day[k].load = "Heavy"
                   <=> (plan_7day[k].maths_count > 0 /\ plan_7day[k].reasoning_count = 0)
            /\ (plan_7day[k].gk_count = 4 /\ plan_7day[k].maths_count = 0
                    /\ plan_7day[k].reasoning_count = 0) => plan_7day[k].load = "Medium"

C13_Witness ==
    /\ ForecastDone
    /\ Len(plan_7day) = 7
    /\ plan_7day[1].gk_count = 4
    /\ plan_7day[1].maths_count = 0
    /\ plan_7day[1].load = "Medium"
    /\ Len(gk_priorities.overdue) = 0
    /\ \E k \in DOMAIN plan_7day : plan_7day[k].load = "Heavy"

\* C14: the forecast has exactly 7 records; record k (k = 0..6) is dated
\* today + k days and carries the counts and load of record 0 of a forecast
\* started at today + k days.
C14_SevenIndependentDays ==
    ForecastDone =>
        /\ Len(plan_7day) = 7
        /\ \A k \in 1..7 :
             /\ plan_7day[k].date = [ord |-> today.ord + (k - 1), hour |-> today.hour]
             /\ plan_7day[k] = generate_7day_plan(plan_7day[k].date, gk_data, maths_data)[1]
        /\ \A k \in 1..6 : plan_7day[k].date.ord < plan_7day[k + 1].date.ord

C14_Witness ==
    /\ ForecastDone
    /\ Len(plan_7day) = 7
    /\ plan_7day[1].gk_count < plan_7day[4].gk_count
    /\ plan_7day[1].maths_count < plan_7day[7].maths_count
    /\ plan_7day[1].reasoning_count < plan_7day[7].reasoning_count


(***************************************************************************)
(* Properties of the classifiers on malformed data (SpecDirty).            *)
(***************************************************************************)
\* the revisions of gk_data: positions <<t, i>> in the topics whose value is a list
RevisionSlots ==
    IF "revisions" \in gk_data.keys /\ gk_data.revisions.isdict
    THEN {s \in (DOMAIN gk_data.revisions.items) \X (1..MaxItems + 1) :
            /\ gk_data.revisions.items[s[1]].rev_list.islist
            /\ s[2] \in DOMAIN gk_data.revisions.items[s[1]].rev_list.items}
    ELSE {}

TotalBucketed ==
    Len(gk_priorities.overdue) + Len(gk_priorities.due_today)
        + Len(gk_priorities.weak_areas) + Len(gk_priorities.upcoming)

\* C15: a revision entry that is no dict, has no due_date, or has a due_date
\* that does not parse, is skipped alone: the four buckets hold together as
\* many items as there are well-formed entries, duplicates counted each.
C15_MalformedSkippedAlone ==
    GkDone => TotalBucketed = Cardinality(AcceptedSlots)

\* a malformed entry stands between two equal well-formed ones, and both are returned
C15_Witness ==
    /\ GkDone
    /\ \E s1, s2, s3 \in RevisionSlots :
         /\ s1[1] = s2[1] /\ s2[1] = s3[1]
         /\ s1[2] < s2[2] /\ s2[2] < s3[2]
         /\ s1 \in AcceptedSlots /\ s3 \in AcceptedSlots /\ s2 \notin AcceptedSlots
         /\ SlotItem(s1) = SlotItem(s3)
         /\ Occurrences(SlotItem(s1)) = 2
    /\ TotalBucketed = 2

\* the dict entries of a practice list that have no next_practice_date
UndatedEntries(list) ==
    {i \in DOMAIN list.items :
        list.items[i].isdict /\ "next_practice_date" \notin list.items[i].keys}

\* C16: a practice entry without next_practice_date is skipped: no item of the
\* results of get_maths_priorities and get_reasoning_priorities carries its name.
C16_UndatedEntrySkipped ==
    PracticeDone =>
        /\ \A i \in UndatedEntries(maths_data.chapters) :
             \A k \in DOMAIN maths_priorities :
                 maths_priorities[k].chapter # maths_data.chapters.items[i].name
        /\ \A i \in UndatedEntries(maths_data.reasoning) :
             \A k \in DOMAIN reasoning_priorities :
                 reasoning_priorities[k].topic # maths_data.reasoning.items[i].topic

\* how many items of the four buckets carry the topic name
BucketedOfTopic(name) ==
    Cardinality({k \in DOMAIN gk_priorities.overdue : gk_priorities.overdue[k].topic = name})
        + Cardinality({k \in DOMAIN gk_priorities.due_today :
                          gk_priorities.due_today[k].topic = name})
        + Cardinality({k \in DOMAIN gk_priorities.weak_areas :
                          gk_priorities.weak_areas[k].topic = name})
        + Cardinality({k \in DOMAIN gk_priorities.upcoming :
                          gk_priorities.upcoming[k].topic = name})

GkShapeWrong == "revisions" \notin gk_data.keys \/ ~gk_data.revisions.isdict

SectionShapeWrong(key) == key \notin maths_data.keys \/ ~maths_data[key].islist

\* C17: a source that is missing or has the wrong shape gives an empty result:
\* four empty buckets without a dict of revisions, an empty list without a
\* list of chapters or of reasoning topics; and a topic whose value is no list
\* contributes nothing while every other topic contributes its well-formed
\* entries.
C17_WrongShapeGivesEmpty ==
    PracticeDone =>
        /\ GkShapeWrong => gk_priorities = EmptyPriorities
        /\ SectionShapeWrong("chapters") => maths_priorities = <<>>
        /\ SectionShapeWrong("reasoning") => reasoning_priorities = <<>>
        /\ ~GkShapeWrong =>
             \A t \in DOMAIN gk_data.revisions.items :
                 BucketedOfTopic(gk_data.revisions.items[t].topic)
                     = Cardinality({s \in AcceptedSlots : s[1] = t})

\* the first topic is no list, the second is classified; chapters is no list
C17_Witness ==
    /\ PracticeDone
    /\ ~GkShapeWrong
    /\ ~gk_data.revisions.items[1].rev_list.islist
    /\ BucketedOfTopic(gk_data.revisions.items[1].topic) = 0
    /\ BucketedOfTopic(gk_data.revisions.items[2].topic) = 1
    /\ "chapters" \in maths_data.keys
    /\ ~maths_data.chapters.islist
    /\ maths_priorities = <<>>

\* the accepted revisions that have no success_rate
UnratedSlots == {s \in AcceptedSlots : "success_rate" \notin SlotEntry(s).keys}

\* the item a revision without success_rate must give: its rate is 1.0 (100 hundredths)
UnratedItem(s) ==
    RevisionItem(gk_data.revisions.items[s[1]].topic, fromisoformat(SlotEntry(s).due_date), 100)

\* the due entries of a practice list that have no accuracy
UnscoredDue(list) ==
    {i \in DatedEntries(list) :
        "accuracy" \notin list.items[i].keys /\ OnOrBeforeToday(list.items[i])}

\* the items of result that carry the name of entry i of list are there, are
\* MEDIUM and store the accuracy 1.0
UnscoredIsMedium(list, result, namekey, i) ==
    /\ \E k \in DOMAIN result : result[k][namekey] = list.items[i][namekey]
    /\ \A k \in DOMAIN result :
         result[k][namekey] = list.items[i][namekey] =>
             result[k].priority = "MEDIUM" /\ result[k].accuracy = 100

\* C18: a missing success_rate or accuracy counts as 1.0: a revision without
\* success_rate is returned with success_rate 1.0 and never in weak_areas; a
\* due practice entry without accuracy is returned MEDIUM with accuracy 1.0.
C18_MissingRateIsOne ==
    PracticeDone =>
        /\ \A s \in UnratedSlots :
             /\ Occurrences(UnratedItem(s)) >= 1
             /\ UnratedItem(s) \notin Elems(gk_priorities.weak_areas)
        /\ \A x \in Elems(gk_priorities.weak_areas) : x.success_rate < 70
        /\ \A i \in UnscoredDue(maths_data.chapters) :
             UnscoredIsMedium(maths_data.chapters, maths_priorities, "chapter", i)
        /\ \A i \in UnscoredDue(maths_data.reasoning) :
             UnscoredIsMedium(maths_data.reasoning, reasoning_priorities, "topic", i)

\* a future revision without success_rate is in upcoming, and a due chapter and
\* a due reasoning topic without accuracy are returned
C18_Witness ==
    /\ PracticeDone
    /\ \E s \in UnratedSlots : UnratedItem(s) \in Elems(gk_priorities.upcoming)
    /\ UnscoredDue(maths_data.chapters) # {}
    /\ UnscoredDue(maths_data.reasoning) # {}
    /\ \E k \in DOMAIN maths_priorities : maths_priorities[k].priority = "MEDIUM"
    /\ \E k \in DOMAIN reasoning_priorities : reasoning_priorities[k].accuracy = 100

\* the entry has the key, with a name that is not the empty string
Carries(entry, key) == key \in entry.keys /\ entry[key] # ""

\* the first of name, chapter, topic the entry carries
AnyOfThreeKeys(entry) ==
    IF Carries(entry, "name") THEN entry.name
    ELSE IF Carries(entry, "chapter") THEN entry.chapter
    ELSE IF Carries(entry, "topic") THEN entry.topic
    ELSE "Unknown"

\* name, or else the one key of the section (chapter for maths, topic for reasoning)
NameOrSectionKey(entry, key) ==
    IF Carries(entry, "name") THEN entry.name
    ELSE IF Carries(entry, key) THEN entry[key]
    ELSE "Unknown"

\* every entry of the list was returned (the results keep the order of the list)
AllReturned(list, result) == Len(result) = Len(list.items) /\ Len(result) > 0

\* C19 as stated: the display name of a returned practice item is the first of
\* name, chapter, topic its entry carries, "Unknown" only when it carries none.
C19_AnyOfThreeKeys ==
    PracticeDone =>
        /\ AllReturned(maths_data.chapters, maths_priorities) =>
             \A k \in DOMAIN maths_priorities :
                 maths_priorities[k].chapter = AnyOfThreeKeys(maths_data.chapters.items[k])
        /\ AllReturned(maths_data.reasoning, reasoning_priorities) =>
             \A k \in DOMAIN reasoning_priorities :
                 reasoning_priorities[k].topic = AnyOfThreeKeys(maths_data.reasoning.items[k])

\* C19 amended: the display name is the entry's name; without one, a maths
\* item takes the entry's chapter and a reasoning item the entry's topic;
\* without that it is "Unknown".  A maths entry's topic and a reasoning
\* entry's chapter are never used, and an empty string counts as absent.
C19_NameOrSectionKey ==
    PracticeDone =>
        /\ AllReturned(maths_data.chapters, maths_priorities) =>
             \A k \in DOMAIN maths_priorities :
                 maths_priorities[k].chapter
                     = NameOrSectionKey(maths_data.chapters.items[k], "chapter")
        /\ AllReturned(maths_data.reasoning, reasoning_priorities) =>
             \A k \in DOMAIN reasoning_priorities :
                 reasoning_priorities[k].topic
                     = NameOrSectionKey(maths_data.reasoning.items[k], "topic")

\* an entry that carries only "topic" is returned as "Unknown" by
\* get_maths_priorities and under its topic by get_reasoning_priorities
C19_Witness ==
    /\ PracticeDone
    /\ AllReturned(maths_data.chapters, maths_priorities)
    /\ AllReturned(maths_data.reasoning, reasoning_priorities)
    /\ maths_data.chapters.items[1].keys \cap {"name", "chapter", "topic"} = {"topic"}
    /\ maths_data.chapters.items[1].topic = "Topic"
    /\ maths_priorities[1].chapter = "Unknown"
    /\ maths_data.reasoning.items[1] = maths_data.chapters.items[1]
    /\ reasoning_priorities[1].topic = "Topic"

(***************************************************************************)
(* Relations between the results of two reference dates (Spec).            *)
(***************************************************************************)
\* the overdue bucket of the same gk_data, n days after today
OverdueAfter(n) == get_gk_priorities(gk_data, AddDays(today, n)).overdue

\* every item of bucket a is in bucket b at least as often
Contained(a, b) == \A x \in Elems(a) : Count(a, x) <= Count(b, x)

\* C20: every revision in overdue for today is in overdue for today + 1 day,
\* and what is overdue then is overdue the day after.
C20_OverdueMonotone ==
    GkDone =>
        /\ gk_priorities.overdue = OverdueAfter(0)
        /\ Contained(gk_priorities.overdue, OverdueAfter(1))
        /\ Contained(OverdueAfter(1), OverdueAfter(2))

\* a revision is overdue today and stays so; another one becomes overdue the next day
C20_Witness ==
    /\ GkDone
    /\ gk_priorities.overdue # <<>>
    /\ Len(OverdueAfter(1)) > Len(gk_priorities.overdue)
    /\ Contained(gk_priorities.overdue, OverdueAfter(1))

TopicItems(t) ==
    LET topic == gk_data.revisions.items[t]
        good == IF topic.rev_list.islist
                THEN SelectSeq(topic.rev_list.items, RevisionAccepted)
                ELSE <<>>
    IN  [i \in DOMAIN good |->
            RevisionItem(topic.topic, fromisoformat(good[i].due_date), RevisionRate(good[i]))]

\* the output items of all well-formed entries in the order of traversal:
\* topics in map order, entries in list order
RECURSIVE Traversal(_)
Traversal(t) ==
    IF GkShapeWrong \/ t > Len(gk_data.revisions.items) THEN <<>>
    ELSE TopicItems(t) \o Traversal(t + 1)

\* seq without the elements that are not in set, order kept
Restricted(seq, set) == SelectSeq(seq, LAMBDA x : x \in set)

\* the display names of the entries of a practice list, in list order
InputNames(list, key) ==
    [i \in DOMAIN list.items |->
        IF list.items[i].isdict THEN NameOrSectionKey(list.items[i], key) ELSE "(no dict)"]

ResultNames(result, key) == [k \in DOMAIN result |-> result[k][key]]

\* C22: every result sequence keeps the input order: each bucket is the
\* traversal of the input (topics in map order, entries in list order) with
\* the items of the other buckets left out, and the names of the maths and
\* reasoning results are the names of the input list with those not
\* returned left out.
C22_InputOrderKept ==
    PracticeDone =>
        /\ \A b \in BucketNames :
             gk_priorities[b] = Restricted(Traversal(1), Elems(gk_priorities[b]))
        /\ ResultNames(maths_priorities, "chapter")
             = Restricted(InputNames(maths_data.chapters, "chapter"),
                          Elems(ResultNames(maths_priorities, "chapter")))
        /\ ResultNames(reasoning_priorities, "topic")
             = Restricted(InputNames(maths_data.reasoning, "topic"),
                          Elems(ResultNames(reasoning_priorities, "topic")))

\* maths holds two chapters in list order, the later one with the earlier
\* date and the higher priority; a revision was classified as well
C22_Witness ==
    /\ PracticeDone
    /\ Len(maths_data.chapters.items) = 2
    /\ Len(maths_priorities) = 2
    /\ maths_priorities[1].priority = "MEDIUM"
    /\ maths_priorities[2].priority = "HIGH"
    /\ maths_priorities[1].next_practice_date.ord > maths_priorities[2].next_practice_date.ord
    /\ TotalBucketed = 1

(***************************************************************************)
(* Shape of the daily plan (Spec).                                         *)
(***************************************************************************)
\* position in the order maths, reasoning, gk
TypeRank(type) == IF type = "maths" THEN 1 ELSE IF type = "reasoning" THEN 2 ELSE 3

TasksOrdered(tasks) ==
    \A i, j \in DOMAIN tasks : i < j => TypeRank(tasks[i].type) <= TypeRank(tasks[j].type)

\* C23: for every combination of inputs generate_daily_plan returns a tasks
\* list in which every maths task precedes every reasoning task and every
\* reasoning task precedes the gk task.
C23_MathsReasoningGkOrder ==
    PlanDone => ~plan_raised /\ TasksOrdered(plan.tasks)

\* what C23 is about cannot happen: no returned plan holds a reasoning task
C23_NoReasoningTaskReturned ==
    PlanDone /\ ~plan_raised => TasksOfType("reasoning") = <<>>

TasksOfLoad(load) == SelectSeq(plan.tasks, LAMBDA t : t.load = load)

\* C24: the counters of the returned plan agree with its task list:
\* heavy_count, medium_count and light_count are the numbers of tasks of load
\* Heavy, Medium and Light.
C24_CountersAgree ==
    PlanDone /\ ~plan_raised =>
        /\ plan.heavy_count = Len(TasksOfLoad("Heavy"))
        /\ plan.medium_count = Len(TasksOfLoad("Medium"))
        /\ plan.light_count = Len(TasksOfLoad("Light"))

(***************************************************************************)
(* Counts along the forecast (SpecForecast).                               *)
(***************************************************************************)
\* C25: across the 7 records the counts never decrease: gk_count,
\* maths_count and reasoning_count of each day are at least those of the day
\* before.
C25_CountsNeverDecrease ==
    ForecastDone =>
        \A k \in 1..(Len(plan_7day) - 1) :
            /\ plan_7day[k].gk_count <= plan_7day[k + 1].gk_count
            /\ plan_7day[k].maths_count <= plan_7day[k + 1].maths_count
            /\ plan_7day[k].reasoning_count <= plan_7day[k + 1].reasoning_count

\* revisions counted on one day are joined by another the next day, a chapter
\* becomes due within the window, and a reasoning topic is counted on all days
C25_Witness ==
    /\ ForecastDone
    /\ \E k \in 1..(Len(plan_7day) - 1) :
         /\ plan_7day[k].gk_count > 0
         /\ plan_7day[k].gk_count < plan_7day[k + 1].gk_count
    /\ \E k \in 1..(Len(plan_7day) - 1) :
         plan_7day[k].maths_count < plan_7day[k + 1].maths_count
    /\ \A k \in DOMAIN plan_7day : plan_7day[k].reasoning_count = 1
====
